---- MODULE Spec2Model ----
(***************************************************************************)
(* Resource / token API of lastuser_oauth (views/resource.py).             *)
(*                                                                         *)
(* Python strings are TLA+ strings (Len, SubSeq and \o act on them), a     *)
(* Python dict is a function whose DOMAIN is the set of its keys, a list   *)
(* is a sequence.  A value that may be None is a key that may be missing   *)
(* from the record that holds it.                                          *)
(***************************************************************************)
EXTENDS Integers, Sequences, FiniteSets, TLC

(* -------------------------- bounds ----------------------------------- *)
\* longest effective scope drawn for the token of the store
MaxScopeLen == 2
\* most teams a user is a direct member of
MaxTeams == 2
\* most access touches a session records before the model stops touching it
MaxTouches == 2

(* ----------------------- Python helpers ------------------------------ *)
Range(s) == {s[i] : i \in 1..Len(s)}

\* x in seq
In(x, s) == \E i \in 1..Len(s) : s[i] = x

\* d.get(k) is falsy: the key is missing (None) or holds ''
Falsy(d, k) == k \notin DOMAIN d \/ d[k] = ""

\* s[a:b] for a string, 0 <= a: the slice is cut at the end of s
Slice(s, a, b) ==
    LET e == IF b < Len(s) THEN b ELSE Len(s)
    IN  IF a >= e THEN "" ELSE SubSeq(s, a + 1, e)

\* str.startswith
startswith(s, p) == Slice(s, 0, Len(p)) = p

\* s[n:]
StrFrom(s, n) == Slice(s, n, Len(s))

\* s[i] as a one-character string (0-based, as in Python)
CharAt(s, i) == SubSeq(s, i + 1, i + 1)

\* str.find(c) for a set of one-character strings, from 0-based index `from`:
\* the least index holding one of them, or Len(s) when there is none
FindAny(s, cs, from) ==
    LET hits == {i \in from..(Len(s) - 1) : CharAt(s, i) \in cs}
    IN  IF hits = {} THEN Len(s)
        ELSE CHOOSE i \in hits : \A j \in hits : i <= j

\* the code points are compared through their place in this string,
\* which lists the characters the model uses in ASCII order
Alphabet == " *+-./0123456789:@ABCDEFGHIJKLMNOPQRSTUVWXYZ[]_abcdefghijklmnopqrstuvwxyz"

Ord(c) == CHOOSE i \in 1..Len(Alphabet) : SubSeq(Alphabet, i, i) = c

\* a < b for Python strings (lexicographic on code points)
RECURSIVE StrLess(_, _)
StrLess(a, b) ==
    IF b = "" THEN FALSE
    ELSE IF a = "" THEN TRUE
    ELSE IF Head(a) = Head(b) THEN StrLess(Tail(a), Tail(b))
    ELSE Ord(Head(a)) < Ord(Head(b))

\* sorted(S) for a set of strings
RECURSIVE sorted(_)
sorted(S) ==
    IF S = {} THEN <<>>
    ELSE LET m == CHOOSE x \in S : \A y \in S \ {x} : StrLess(x, y)
         IN  <<m>> \o sorted(S \ {m})

\* str.split(' '): every single space separates, so '' gives [''] and
\* 'a  b' gives ['a', '', 'b']
RECURSIVE split(_)
split(s) ==
    LET i == FindAny(s, {" "}, 0)
    IN  IF i = Len(s) THEN <<s>>
        ELSE <<Slice(s, 0, i)>> \o split(StrFrom(s, i + 1))

(* ------------------- the storage collaborator ------------------------ *)
Users == {"u1", "u2"}
TeamIds == {"t1", "t2", "t3"}
OrgIds == {"o1", "o2"}
ClientIds == {"c1", "c2", "c3", "c4"}

\* Organization rows: o1 holds t1 (its owners team) and t2, o2 holds t3
Organization(o) ==
    [buid |-> o, uuid |-> o \o "-uuid", name |-> o \o "-name",
     title |-> o \o "-title",
     owners |-> IF o = "o1" THEN "t1" ELSE "t3",
     teams |-> IF o = "o1" THEN <<"t1", "t2">> ELSE <<"t3">>]

\* Team rows
Team(t) ==
    [buid |-> t, uuid |-> t \o "-uuid", title |-> t \o "-title",
     organization |-> IF t = "t3" THEN "o2" ELSE "o1"]

\* AuthClient rows.  c1 and c3 are user-owned (auth_client.user is set), c2
\* and c4 are governed by an organization; c3 has the namespace '' and c4
\* has none.
AuthClient(c) ==
    [buid |-> c, title |-> c \o "-title", website |-> "https://" \o c,
     trusted |-> (c = "c2"),
     owner |-> [buid |-> IF c \in {"c1", "c3"} THEN "u2" ELSE "o1",
                uuid |-> IF c \in {"c1", "c3"} THEN "u2-uuid" ELSE "o1-uuid",
                pickername |-> IF c \in {"c1", "c3"} THEN "u2-name" ELSE "o1-title"]]
    @@ (IF c \in {"c1", "c3"} THEN [user |-> "u2"] ELSE <<>>)
    @@ (IF c = "c1" THEN [namespace |-> "crm"]
        ELSE IF c = "c2" THEN [namespace |-> "crmx"]
        ELSE IF c = "c3" THEN [namespace |-> ""]
        ELSE <<>>)

VARIABLES
    tokens,         \* AuthToken rows by token string
    user_teams,     \* user.teams, in the order the relationship yields them
    orgs_owned,     \* user.organizations_owned()
    orgs_memberof,  \* user.organizations_memberof()
    user_perms,     \* AuthClientUserPermissions rows by <<client, user>>
    team_perms,     \* AuthClientTeamPermissions rows by <<client, team>>
    row_order,      \* the order in which the next query returns its rows
    avatar,         \* user.avatar
    sessions,       \* UserSession rows by session buid
    req,            \* the request being answered
    resp            \* its response

vars == <<tokens, user_teams, orgs_owned, orgs_memberof, user_perms,
          team_perms, row_order, avatar, sessions, req, resp>>

db == <<tokens, user_teams, orgs_owned, orgs_memberof, user_perms,
        team_perms, avatar, sessions>>

\* User row
User(u) ==
    [buid |-> u, uuid |-> u \o "-uuid", username |-> u \o "-name",
     fullname |-> u \o "-fullname", timezone |-> "UTC",
     avatar |-> avatar[u],
     oldids |-> IF u = "u1" THEN <<[buid |-> "u0", uuid |-> "u0-uuid"]>> ELSE <<>>,
     email |-> u \o "@x", phone |-> "+91" \o (IF u = "u1" THEN "1" ELSE "2")]

\* user.organizations(): owned and member-of organizations together
organizations(u) ==
    orgs_owned[u] \o
    SelectSeq(orgs_memberof[u], LAMBDA o : ~In(o, orgs_owned[u]))

\* AuthToken.get(token=...): the row, when there is one
AuthToken_known(token) == token \in DOMAIN tokens

AuthToken_get(token) == tokens[token]

\* AuthClientTeamPermissions.all_for(auth_client, user).all(): the grants of
\* the client to the user's teams, in the order the query returns them
all_for(auth_client, user) ==
    LET ts == {t \in Range(user_teams[user]) :
                   <<auth_client, t>> \in DOMAIN team_perms}
        RECURSIVE rows(_, _)
        rows(i, left) ==
            IF i > Len(row_order) THEN <<>>
            ELSE IF row_order[i] \in left
                 THEN <<team_perms[<<auth_client, row_order[i]>>]>>
                      \o rows(i + 1, left \ {row_order[i]})
                 ELSE rows(i + 1, left)
    IN  rows(1, ts)

(* --------------------------- get_userinfo ---------------------------- *)
\* '*' in scope or topic in scope or topic + '/*' in scope
scope_grants_nostar(scope, topic) ==
    In(topic, scope) \/ In(topic \o "/*", scope)

scope_grants(scope, topic) ==
    In("*", scope) \/ In(topic, scope) \/ In(topic \o "/*", scope)

\* the id block of the document
userinfo_id(user, scope) ==
    IF scope_grants(scope, "id")
    THEN [userid |-> User(user).buid,
          buid |-> User(user).buid,
          uuid |-> User(user).uuid,
          username |-> User(user).username,
          fullname |-> User(user).fullname,
          timezone |-> User(user).timezone,
          avatar |-> User(user).avatar,
          oldids |-> [i \in 1..Len(User(user).oldids) |-> User(user).oldids[i].buid],
          olduuids |-> [i \in 1..Len(User(user).oldids) |-> User(user).oldids[i].uuid]]
    ELSE <<>>

\* one entry of an organizations list
org_entry(o) ==
    [userid |-> Organization(o).buid, buid |-> Organization(o).buid,
     uuid |-> Organization(o).uuid, name |-> Organization(o).name,
     title |-> Organization(o).title]

\* the sessionid, email, phone and organizations keys
userinfo_topics(user, scope, user_session) ==
    (IF "buid" \in DOMAIN user_session
     THEN [sessionid |-> user_session.buid] ELSE <<>>)
    @@ (IF scope_grants(scope, "email")
        THEN [email |-> User(user).email] ELSE <<>>)
    @@ (IF scope_grants(scope, "phone")
        THEN [phone |-> User(user).phone] ELSE <<>>)
    @@ (IF scope_grants(scope, "organizations")
        THEN [organizations |->
                [owner |-> [i \in 1..Len(orgs_owned[user]) |->
                               org_entry(orgs_owned[user][i])],
                 member |-> [i \in 1..Len(orgs_memberof[user]) |->
                               org_entry(orgs_memberof[user][i])],
                 all |-> [i \in 1..Len(organizations(user)) |->
                               org_entry(organizations(user)[i])]]]
        ELSE <<>>)

\* one value of the teams dict
team_entry(t, member) ==
    [userid |-> Team(t).buid, buid |-> Team(t).buid, uuid |-> Team(t).uuid,
     title |-> Team(t).title,
     org |-> Organization(Team(t).organization).buid,
     org_uuid |-> Organization(Team(t).organization).uuid,
     owners |-> (t = Organization(Team(t).organization).owners),
     member |-> member]

\* teams[key] = value on a dict kept as the sequence of its values in
\* insertion order: a key already there keeps its place and takes the value
dict_set(teams, value) ==
    IF \E i \in 1..Len(teams) : teams[i].buid = value.buid
    THEN [i \in 1..Len(teams) |->
             IF teams[i].buid = value.buid THEN value ELSE teams[i]]
    ELSE Append(teams, value)

\* the first pass written as the elif branch of the second: it is skipped
\* when the scope grants teams
teams_member_elif(user, scope) ==
    LET RECURSIVE walk(_, _)
        walk(i, teams) ==
            IF i > Len(user_teams[user]) THEN teams
            ELSE walk(i + 1, dict_set(teams, team_entry(user_teams[user][i], TRUE)))
    IN  IF scope_grants(scope, "teams") THEN <<>>
        ELSE IF scope_grants(scope, "organizations") THEN walk(1, <<>>)
        ELSE <<>>

\* first pass: the teams the user is a member of
teams_member(user, scope) ==
    LET RECURSIVE walk(_, _)
        walk(i, teams) ==
            IF i > Len(user_teams[user]) THEN teams
            ELSE walk(i + 1, dict_set(teams, team_entry(user_teams[user][i], TRUE)))
    IN  IF scope_grants(scope, "organizations") \/ scope_grants(scope, "teams")
        THEN walk(1, <<>>)
        ELSE <<>>

\* the teams of the organizations the user owns, org after org
owned_teams(user) ==
    LET RECURSIVE flat(_)
        flat(i) ==
            IF i > Len(orgs_owned[user]) THEN <<>>
            ELSE Organization(orgs_owned[user][i]).teams \o flat(i + 1)
    IN  flat(1)

\* the second pass with the membership test dropped
teams_owned_overwrite(user, scope, teams) ==
    LET RECURSIVE walk(_, _)
        walk(i, acc) ==
            IF i > Len(owned_teams(user)) THEN acc
            ELSE walk(i + 1, dict_set(acc, team_entry(owned_teams(user)[i], FALSE)))
    IN  IF scope_grants(scope, "teams") THEN walk(1, teams) ELSE teams

\* the second pass run under the scope test of the first
teams_owned_any_scope(user, scope, teams) ==
    LET RECURSIVE walk(_, _)
        walk(i, acc) ==
            IF i > Len(owned_teams(user)) THEN acc
            ELSE IF \E k \in 1..Len(acc) : acc[k].buid = owned_teams(user)[i]
                 THEN walk(i + 1, acc)
                 ELSE walk(i + 1,
                           dict_set(acc, team_entry(owned_teams(user)[i], FALSE)))
    IN  IF scope_grants(scope, "organizations") \/ scope_grants(scope, "teams")
        THEN walk(1, teams)
        ELSE teams

\* second pass: the teams of owned organizations that are not in the dict yet
teams_owned(user, scope, teams) ==
    LET RECURSIVE walk(_, _)
        walk(i, acc) ==
            IF i > Len(owned_teams(user)) THEN acc
            ELSE IF \E k \in 1..Len(acc) : acc[k].buid = owned_teams(user)[i]
                 THEN walk(i + 1, acc)
                 ELSE walk(i + 1,
                           dict_set(acc, team_entry(owned_teams(user)[i], FALSE)))
    IN  IF scope_grants(scope, "teams") THEN walk(1, teams) ELSE teams

\* the teams key: set only when the dict is not empty
userinfo_teams(user, scope) ==
    LET teams == teams_owned(user, scope, teams_member(user, scope))
    IN  IF teams # <<>> THEN [teams |-> teams] ELSE <<>>

\* permsset.update(...) over the rows of the query
permsset_of(rows) ==
    UNION {Range(split(rows[i])) : i \in 1..Len(rows)}

\* the permissions key
userinfo_permissions(user, auth_client) ==
    IF "user" \in DOMAIN AuthClient(auth_client)
    THEN IF <<auth_client, user>> \in DOMAIN user_perms
         THEN [permissions |-> split(user_perms[<<auth_client, user>>])]
         ELSE <<>>
    ELSE [permissions |->
            sorted(IF user_teams[user] # <<>>
                   THEN permsset_of(all_for(auth_client, user))
                   ELSE {})]

get_userinfo(user, auth_client, scope, user_session, get_permissions) ==
    (IF get_permissions THEN userinfo_permissions(user, auth_client) ELSE <<>>)
    @@ userinfo_teams(user, scope)
    @@ userinfo_topics(user, scope, user_session)
    @@ userinfo_id(user, scope)

(* ------------------------ response builders -------------------------- *)
NoCache ==
    [Cache_Control |-> "private, no-cache, no-store, max-age=0, must-revalidate",
     Pragma |-> "no-cache"]

\* resource_error: description and uri are '' where the caller passes none
resource_error(error, description, uri) ==
    [status_code |-> 400,
     headers |-> NoCache,
     body |-> [status |-> "error", error |-> error]
              @@ (IF description # "" THEN [error_description |-> description] ELSE <<>>)
              @@ (IF uri # "" THEN [error_uri |-> uri] ELSE <<>>)]

\* api_result answering an application error with the malformed-request status
api_result_400(status, params) ==
    [status_code |-> IF status = "error" THEN 400 ELSE 200,
     headers |-> NoCache,
     body |-> [status |-> status] @@ params]

\* api_result: every caller of this file passes 'ok' or 'error', never the
\* integers 200 or 201, so status_code stays 200; params['status'] replaces a
\* status key of params
api_result(status, params) ==
    [status_code |-> 200,
     headers |-> NoCache,
     body |-> [status |-> status] @@ params]

(* ---------------------- token/verify, token/get_scope ---------------- *)
\* the clientinfo of a token's own client
clientinfo(authtoken) ==
    [title |-> AuthClient(authtoken.auth_client).title,
     userid |-> AuthClient(authtoken.auth_client).owner.buid,
     buid |-> AuthClient(authtoken.auth_client).owner.buid,
     uuid |-> AuthClient(authtoken.auth_client).owner.uuid,
     owner_title |-> AuthClient(authtoken.auth_client).owner.pickername,
     website |-> AuthClient(authtoken.auth_client).website,
     key |-> AuthClient(authtoken.auth_client).buid,
     trusted |-> AuthClient(authtoken.auth_client).trusted]

\* validity and, for a token with a user, userinfo
token_params(auth_client, authtoken) ==
    [validity |-> 120]
    @@ (IF "user" \in DOMAIN authtoken
        THEN [userinfo |-> get_userinfo(authtoken.user, auth_client,
                                        authtoken.effective_scope, <<>>, TRUE)]
        ELSE <<>>)

\* token_verify with the token looked up before the client's namespace is
\* tested
token_verify_lookup_first(auth_client, form) ==
    IF Falsy(form, "resource") THEN resource_error("no_resource", "", "")
    ELSE IF form.resource # "*" THEN resource_error("unknown_resource", "", "")
    ELSE IF Falsy(form, "access_token") THEN resource_error("no_token", "", "")
    ELSE IF ~AuthToken_known(form.access_token)
    THEN api_result("error", [error |-> "no_token"])
    ELSE IF Falsy(AuthClient(auth_client), "namespace")
    THEN api_result("error", [error |-> "client_no_resources"])
    ELSE IF /\ ~In(AuthClient(auth_client).namespace \o ":" \o form.resource,
                   AuthToken_get(form.access_token).effective_scope)
            /\ ~In(AuthClient(auth_client).namespace \o ":*",
                   AuthToken_get(form.access_token).effective_scope)
    THEN api_result("error", [error |-> "access_denied"])
    ELSE api_result("ok",
             token_params(auth_client, AuthToken_get(form.access_token))
             @@ [clientinfo |-> clientinfo(AuthToken_get(form.access_token))])

\* token_verify accepting any entry of the client's namespace as a grant
token_verify_any_entry(auth_client, form) ==
    IF Falsy(form, "resource") THEN resource_error("no_resource", "", "")
    ELSE IF form.resource # "*" THEN resource_error("unknown_resource", "", "")
    ELSE IF Falsy(form, "access_token") THEN resource_error("no_token", "", "")
    ELSE IF Falsy(AuthClient(auth_client), "namespace")
    THEN api_result("error", [error |-> "client_no_resources"])
    ELSE IF ~AuthToken_known(form.access_token)
    THEN api_result("error", [error |-> "no_token"])
    ELSE IF ~\E i \in 1..Len(AuthToken_get(form.access_token).effective_scope) :
                startswith(AuthToken_get(form.access_token).effective_scope[i],
                           AuthClient(auth_client).namespace \o ":")
    THEN api_result("error", [error |-> "access_denied"])
    ELSE api_result("ok",
             token_params(auth_client, AuthToken_get(form.access_token))
             @@ [clientinfo |-> clientinfo(AuthToken_get(form.access_token))])

\* token_verify for the calling client auth_client (current_auth.auth_client)
\* and the posted form
token_verify(auth_client, form) ==
    IF Falsy(form, "resource") THEN resource_error("no_resource", "", "")
    ELSE IF form.resource # "*" THEN resource_error("unknown_resource", "", "")
    ELSE IF Falsy(form, "access_token") THEN resource_error("no_token", "", "")
    ELSE IF Falsy(AuthClient(auth_client), "namespace")
    THEN api_result("error", [error |-> "client_no_resources"])
    ELSE IF ~AuthToken_known(form.access_token)
    THEN api_result("error", [error |-> "no_token"])
    ELSE IF /\ ~In(AuthClient(auth_client).namespace \o ":" \o form.resource,
                   AuthToken_get(form.access_token).effective_scope)
            /\ ~In(AuthClient(auth_client).namespace \o ":*",
                   AuthToken_get(form.access_token).effective_scope)
    THEN api_result("error", [error |-> "access_denied"])
    ELSE api_result("ok",
             token_params(auth_client, AuthToken_get(form.access_token))
             @@ [clientinfo |-> clientinfo(AuthToken_get(form.access_token))])

\* the loop of token_get_scope with the ':' left out of the prefix
client_resources_noprefixcolon(namespace, effective_scope) ==
    LET RECURSIVE walk(_)
        walk(i) ==
            IF i > Len(effective_scope) THEN <<>>
            ELSE IF startswith(effective_scope[i], namespace)
                 THEN <<StrFrom(effective_scope[i], Len(namespace) + 1)>> \o walk(i + 1)
                 ELSE walk(i + 1)
    IN  walk(1)

\* the loop of token_get_scope: the suffixes of the entries that start with
\* nsprefix
client_resources(namespace, effective_scope) ==
    LET nsprefix == namespace \o ":"
        RECURSIVE walk(_)
        walk(i) ==
            IF i > Len(effective_scope) THEN <<>>
            ELSE IF startswith(effective_scope[i], nsprefix)
                 THEN <<StrFrom(effective_scope[i], Len(nsprefix))>> \o walk(i + 1)
                 ELSE walk(i + 1)
    IN  walk(1)

\* token_get_scope describing the calling client in clientinfo
token_get_scope_calling_client(auth_client, form) ==
    IF Falsy(form, "access_token") THEN resource_error("no_token", "", "")
    ELSE IF Falsy(AuthClient(auth_client), "namespace")
    THEN api_result("error", [error |-> "client_no_resources"])
    ELSE IF ~AuthToken_known(form.access_token)
    THEN api_result("error", [error |-> "no_token"])
    ELSE IF client_resources(AuthClient(auth_client).namespace,
                AuthToken_get(form.access_token).effective_scope) = <<>>
    THEN api_result("error", [error |-> "no_access"])
    ELSE api_result("ok",
             token_params(auth_client, AuthToken_get(form.access_token))
             @@ [clientinfo |->
                   clientinfo([auth_client |-> auth_client])
                   @@ [scope |-> client_resources(
                                    AuthClient(auth_client).namespace,
                                    AuthToken_get(form.access_token).effective_scope)]])

token_get_scope(auth_client, form) ==
    IF Falsy(form, "access_token") THEN resource_error("no_token", "", "")
    ELSE IF Falsy(AuthClient(auth_client), "namespace")
    THEN api_result("error", [error |-> "client_no_resources"])
    ELSE IF ~AuthToken_known(form.access_token)
    THEN api_result("error", [error |-> "no_token"])
    ELSE IF client_resources(AuthClient(auth_client).namespace,
                AuthToken_get(form.access_token).effective_scope) = <<>>
    THEN api_result("error", [error |-> "no_access"])
    ELSE api_result("ok",
             token_params(auth_client, AuthToken_get(form.access_token))
             @@ [clientinfo |->
                   clientinfo(AuthToken_get(form.access_token))
                   @@ [scope |-> client_resources(
                                    AuthClient(auth_client).namespace,
                                    AuthToken_get(form.access_token).effective_scope)]])

(* --------------------------- session/verify -------------------------- *)
\* UserSession.authenticate(buid=...): the session, when it exists and has
\* not expired
UserSession_authenticate(buid) ==
    buid \in DOMAIN sessions /\ ~sessions[buid].expired

\* session.access(auth_client=...): one access touch, with the client as the
\* last one seen
UserSession_access(session, auth_client) ==
    [session EXCEPT !.touches = @ + 1, !.last_client = auth_client]

\* session_verify without the test that the session is the token user's
session_verify_any_user(authtoken, args) ==
    IF UserSession_authenticate(args.sessionid)
    THEN [kind |-> "return",
          result |-> [active |-> TRUE,
                      sessionid |-> args.sessionid,
                      userid |-> User(sessions[args.sessionid].user).buid,
                      buid |-> User(sessions[args.sessionid].user).buid,
                      user_uuid |-> User(sessions[args.sessionid].user).uuid,
                      sudo |-> sessions[args.sessionid].has_sudo],
          sessions |-> [sessions EXCEPT ![args.sessionid] =
                           UserSession_access(@, authtoken.auth_client)]]
    ELSE [kind |-> "return", result |-> [active |-> FALSE], sessions |-> sessions]

\* session_verify: what it returns and the sessions it leaves
session_verify(authtoken, args) ==
    IF /\ UserSession_authenticate(args.sessionid)
       /\ "user" \in DOMAIN authtoken
       /\ sessions[args.sessionid].user = authtoken.user
    THEN [kind |-> "return",
          result |-> [active |-> TRUE,
                      sessionid |-> args.sessionid,
                      userid |-> User(sessions[args.sessionid].user).buid,
                      buid |-> User(sessions[args.sessionid].user).buid,
                      user_uuid |-> User(sessions[args.sessionid].user).uuid,
                      sudo |-> sessions[args.sessionid].has_sudo],
          sessions |-> [sessions EXCEPT ![args.sessionid] =
                           UserSession_access(@, authtoken.auth_client)]]
    ELSE [kind |-> "return", result |-> [active |-> FALSE], sessions |-> sessions]

(* ----------------------------- avatar/edit --------------------------- *)
Lowercase == "abcdefghijklmnopqrstuvwxyz"
Uppercase == "ABCDEFGHIJKLMNOPQRSTUVWXYZ"
Digits == "0123456789"

Chars(s) == {SubSeq(s, i, i) : i \in 1..Len(s)}

\* str.lower
RECURSIVE lower(_)
lower(s) ==
    IF s = "" THEN ""
    ELSE (IF Head(s) \in Chars(Uppercase)
          THEN LET k == CHOOSE i \in 1..Len(Uppercase) : SubSeq(Uppercase, i, i) = Head(s)
               IN  SubSeq(Lowercase, k, k)
          ELSE Head(s)) \o lower(Tail(s))

\* urllib.parse.scheme_chars
scheme_chars == Chars(Lowercase) \cup Chars(Uppercase) \cup Chars(Digits) \cup {"+", "-", "."}

\* urllib.parse.urlsplit, for an argument free of blanks and control
\* characters: the scheme is what precedes the first ':' when that starts
\* with a letter and holds scheme characters only, lower-cased; the netloc
\* is what follows a leading '//' up to the first of '/', '?', '#'.  One
\* bracket without the other in the netloc raises ValueError.
urlparse(url) ==
    LET i == FindAny(url, {":"}, 0)
        has_scheme == /\ i < Len(url)
                      /\ i > 0
                      /\ CharAt(url, 0) \in Chars(Lowercase) \cup Chars(Uppercase)
                      /\ \A k \in 0..(i - 1) : CharAt(url, k) \in scheme_chars
        scheme == IF has_scheme THEN lower(Slice(url, 0, i)) ELSE ""
        rest == IF has_scheme THEN StrFrom(url, i + 1) ELSE url
        has_netloc == Slice(rest, 0, 2) = "//"
        delim == FindAny(rest, {"/", "?", "#"}, 2)
        netloc == IF has_netloc THEN Slice(rest, 2, delim) ELSE ""
    IN  IF ("[" \in Chars(netloc)) # ("]" \in Chars(netloc))
        THEN [raises |-> "ValueError"]
        ELSE [scheme |-> scheme, netloc |-> netloc]

\* resource_avatar_edit: what it returns or raises, and the avatars it leaves
resource_avatar_edit(authtoken, args) ==
    LET parsed == urlparse(args.avatar)
    IN  IF "raises" \in DOMAIN parsed
        THEN [kind |-> "raise", exception |-> parsed.raises, avatar |-> avatar]
        ELSE IF parsed.scheme = "https" /\ parsed.netloc # ""
        THEN [kind |-> "return",
              result |-> [avatar |-> args.avatar],
              avatar |-> [avatar EXCEPT ![authtoken.user] = args.avatar]]
        ELSE [kind |-> "raise", exception |-> "BadRequest", avatar |-> avatar]

(* ------------------------- id, organizations, teams ------------------ *)
\* coaster.utils.getbool on the values the model passes
getbool(v) == v \in {"1", "true", "t", "yes", "y", "on"}

\* resource_id passing the token's scope in both branches
resource_id_scope_leak(authtoken, args) ==
    IF "all" \in DOMAIN args /\ getbool(args.all)
    THEN get_userinfo(authtoken.user, authtoken.auth_client,
                      authtoken.effective_scope, <<>>, TRUE)
    ELSE get_userinfo(authtoken.user, authtoken.auth_client,
                      authtoken.effective_scope, <<>>, FALSE)

resource_id(authtoken, args) ==
    IF "all" \in DOMAIN args /\ getbool(args.all)
    THEN get_userinfo(authtoken.user, authtoken.auth_client,
                      authtoken.effective_scope, <<>>, TRUE)
    ELSE get_userinfo(authtoken.user, authtoken.auth_client, <<"id">>, <<>>, FALSE)

resource_organizations(authtoken, args) ==
    get_userinfo(authtoken.user, authtoken.auth_client, <<"organizations">>,
                 <<>>, FALSE)

resource_teams(authtoken, args) ==
    get_userinfo(authtoken.user, authtoken.auth_client, <<"teams">>, <<>>, FALSE)

(* ------------------------------ inputs ------------------------------- *)
\* the sequences of at most n distinct elements of S
RECURSIVE SeqsUpTo(_, _)
SeqsUpTo(S, n) ==
    IF n = 0 THEN {<<>>}
    ELSE LET prev == SeqsUpTo(S, n - 1)
         IN  prev \cup UNION {{Append(q, x) : x \in S \ Range(q)} : q \in prev}

\* entries of a token's scope that name client resources, and one topic
NamespaceScopeItems ==
    {"crm:contacts", "crm:deals", "crm:*", "crm:", "crmx:files", "crmx:*", "id"}

\* entries of a token's scope that name topics of the user's document
TopicScopeItems ==
    {"*", "id", "email", "phone", "organizations", "teams", "teams/*"}

\* request.form of the token endpoints
Forms ==
    {r @@ t : r \in {<<>>} \cup {[resource |-> v] : v \in {"", "*", "contacts"}},
              t \in {<<>>} \cup {[access_token |-> v] : v \in {"", "tok1", "bogus"}}}

\* the avatar argument: scheme, separator, authority, path
AvatarArgs ==
    {s \o sep \o auth \o path :
        s \in {"https", "HTTPS", "http", "ftp", "1https", ""},
        sep \in {"://", ":/", ":", "//", ""},
        auth \in {"x.com", ":80", "u@", "[", "x]", "[::1]", ""},
        path \in {"", "/a.png"}}

SessionIds == {"s1", "s2", "s9"}

Orders == {o \in SeqsUpTo(TeamIds, Cardinality(TeamIds)) : Len(o) = Cardinality(TeamIds)}

Idle == [op |-> "idle"]
NoResp == [kind |-> "none"]

(* --------------------------- initial states -------------------------- *)
PinTokens ==
    tokens = ("tok1" :> [auth_client |-> "c2",
                         effective_scope |-> <<"id", "crm:*">>, user |-> "u1"])

PinTeams ==
    /\ user_teams = [u \in Users |-> IF u = "u1" THEN <<"t1">> ELSE <<>>]
    /\ orgs_owned = [u \in Users |-> IF u = "u1" THEN <<"o1">> ELSE <<>>]
    /\ orgs_memberof = [u \in Users |-> <<>>]

PinPerms ==
    /\ user_perms = (<<"c1", "u1">> :> "read")
    /\ team_perms = (<<"c2", "t1">> :> "read")
    /\ row_order = <<"t1", "t2", "t3">>

PinAvatar == avatar = [u \in Users |-> ""]

PinSessions ==
    sessions = ("s1" :> [user |-> "u1", expired |-> FALSE, has_sudo |-> FALSE,
                         touches |-> 0, last_client |-> ""])

InitIdle == req = Idle /\ resp = NoResp

\* the token of the store has any scope of client resources, with or
\* without a user
InitToken ==
    /\ \E sc \in SeqsUpTo(NamespaceScopeItems, MaxScopeLen),
          u \in {<<>>, [user |-> "u1"]} :
          tokens = ("tok1" :> ([auth_client |-> "c2", effective_scope |-> sc] @@ u))
    /\ PinTeams /\ PinPerms /\ PinAvatar /\ PinSessions /\ InitIdle

\* the token has any scope of topics; its user has any teams and owns any
\* organizations
InitUserinfo ==
    /\ \E sc \in SeqsUpTo(TopicScopeItems, MaxScopeLen) :
          tokens = ("tok1" :> [auth_client |-> "c2", effective_scope |-> sc,
                               user |-> "u1"])
    /\ \E ts \in SeqsUpTo(TeamIds, MaxTeams) :
          user_teams = [u \in Users |-> IF u = "u1" THEN ts ELSE <<>>]
    /\ \E os \in {<<>>, <<"o1">>, <<"o2">>, <<"o1", "o2">>} :
          orgs_owned = [u \in Users |-> IF u = "u1" THEN os ELSE <<>>]
    /\ \E ms \in {<<>>, <<"o2">>} :
          orgs_memberof = [u \in Users |-> IF u = "u1" THEN ms ELSE <<>>]
    /\ PinPerms /\ PinAvatar /\ PinSessions /\ InitIdle

\* the access_permissions strings a grant row may hold
PermStrings == {"", "read", "write read", "read read"}

\* the token's client is user-owned with any direct grant, or governed by
\* teams with any team grants; the query returns its rows in any order
InitPerms ==
    /\ \E ts \in SeqsUpTo(TeamIds, MaxTeams) :
          user_teams = [u \in Users |-> IF u = "u1" THEN ts ELSE <<>>]
    /\ orgs_owned = [u \in Users |-> <<>>]
    /\ orgs_memberof = [u \in Users |-> <<>>]
    /\ \/ /\ tokens = ("tok1" :> [auth_client |-> "c1",
                                  effective_scope |-> <<"id">>, user |-> "u1"])
          /\ \E g \in {<<>>} \cup {<<"c1", "u1">> :> p : p \in PermStrings} :
                user_perms = g
          /\ team_perms = <<>>
          /\ row_order = <<"t1", "t2", "t3">>
       \/ /\ tokens = ("tok1" :> [auth_client |-> "c2",
                                  effective_scope |-> <<"id">>, user |-> "u1"])
          /\ user_perms = <<>>
          /\ \E g1 \in {<<>>} \cup {<<"c2", "t1">> :> p : p \in PermStrings},
                g2 \in {<<>>} \cup {<<"c2", "t2">> :> p : p \in PermStrings \cup {"admin"}} :
                team_perms = g1 @@ g2 @@ (<<"c2", "t3">> :> "admin write")
          /\ row_order \in Orders
    /\ PinAvatar /\ PinSessions /\ InitIdle

\* two sessions, of the token's user and of another user, expired or not
InitSession ==
    /\ \E c \in {"c1", "c2"}, u \in {<<>>, [user |-> "u1"]} :
          tokens = ("tok1" :> ([auth_client |-> c, effective_scope |-> <<"id">>] @@ u))
    /\ \E e1 \in BOOLEAN, e2 \in BOOLEAN, sudo \in BOOLEAN :
          sessions =
             ("s1" :> [user |-> "u1", expired |-> e1, has_sudo |-> sudo,
                       touches |-> 0, last_client |-> ""])
             @@ ("s2" :> [user |-> "u2", expired |-> e2, has_sudo |-> FALSE,
                          touches |-> 0, last_client |-> ""])
    /\ PinTeams /\ PinPerms /\ PinAvatar /\ InitIdle

\* the token has any scope of topics and belongs to a user-owned client,
\* with or without a direct grant, or to a client governed by teams
InitId ==
    /\ \E sc \in SeqsUpTo(TopicScopeItems, MaxScopeLen), c \in {"c1", "c2"} :
          tokens = ("tok1" :> [auth_client |-> c, effective_scope |-> sc,
                               user |-> "u1"])
    /\ \E g \in {<<>>, <<"c1", "u1">> :> "read"} : user_perms = g
    /\ team_perms = (<<"c2", "t1">> :> "read")
    /\ row_order = <<"t1", "t2", "t3">>
    /\ PinTeams /\ PinAvatar /\ PinSessions /\ InitIdle

InitAvatar ==
    /\ \E a \in {"", "https://old/p.png"} : avatar = [u \in Users |-> a]
    /\ PinTokens /\ PinTeams /\ PinPerms /\ PinSessions /\ InitIdle

(* ------------------------------ actions ------------------------------ *)
\* POST /api/1/token/verify by a logged-in client
token_verify_step ==
    /\ req = Idle
    /\ \E c \in ClientIds, form \in Forms :
          /\ req' = [op |-> "token_verify", auth_client |-> c, form |-> form]
          /\ resp' = token_verify(c, form)
    /\ UNCHANGED <<db, row_order>>

\* POST /api/1/token/get_scope by a logged-in client
token_get_scope_step ==
    /\ req = Idle
    /\ \E c \in ClientIds, form \in Forms :
          /\ "resource" \notin DOMAIN form
          /\ req' = [op |-> "token_get_scope", auth_client |-> c, form |-> form]
          /\ resp' = token_get_scope(c, form)
    /\ UNCHANGED <<db, row_order>>

\* GET /api/1/id with a token of a user
resource_id_step ==
    /\ req = Idle
    /\ \E t \in DOMAIN tokens, args \in {<<>>, [all |-> "1"], [all |-> "0"]} :
          /\ "user" \in DOMAIN tokens[t]
          /\ req' = [op |-> "id", token |-> t, args |-> args]
          /\ resp' = [kind |-> "return", result |-> resource_id(tokens[t], args)]
    /\ UNCHANGED <<db, row_order>>

\* GET /api/1/organizations
resource_organizations_step ==
    /\ req = Idle
    /\ \E t \in DOMAIN tokens :
          /\ "user" \in DOMAIN tokens[t]
          /\ req' = [op |-> "organizations", token |-> t, args |-> <<>>]
          /\ resp' = [kind |-> "return",
                      result |-> resource_organizations(tokens[t], <<>>)]
    /\ UNCHANGED <<db, row_order>>

\* GET /api/1/teams
resource_teams_step ==
    /\ req = Idle
    /\ \E t \in DOMAIN tokens :
          /\ "user" \in DOMAIN tokens[t]
          /\ req' = [op |-> "teams", token |-> t, args |-> <<>>]
          /\ resp' = [kind |-> "return", result |-> resource_teams(tokens[t], <<>>)]
    /\ UNCHANGED <<db, row_order>>

\* POST /api/1/session/verify
session_verify_step ==
    /\ req = Idle
    /\ \E t \in DOMAIN tokens, sid \in SessionIds :
          /\ sid \in DOMAIN sessions => sessions[sid].touches < MaxTouches
          /\ req' = [op |-> "session_verify", token |-> t,
                     args |-> [sessionid |-> sid]]
          /\ resp' = [kind |-> session_verify(tokens[t], [sessionid |-> sid]).kind,
                      result |-> session_verify(tokens[t], [sessionid |-> sid]).result]
          /\ sessions' = session_verify(tokens[t], [sessionid |-> sid]).sessions
    /\ UNCHANGED <<tokens, user_teams, orgs_owned, orgs_memberof, user_perms,
                   team_perms, row_order, avatar>>

\* POST /api/1/avatar/edit
resource_avatar_edit_step ==
    /\ req = Idle
    /\ \E t \in DOMAIN tokens, a \in AvatarArgs :
          /\ "user" \in DOMAIN tokens[t]
          /\ req' = [op |-> "avatar_edit", token |-> t, args |-> [avatar |-> a]]
          /\ resp' = [k \in DOMAIN resource_avatar_edit(tokens[t], [avatar |-> a])
                            \ {"avatar"} |->
                         resource_avatar_edit(tokens[t], [avatar |-> a])[k]]
          /\ avatar' = resource_avatar_edit(tokens[t], [avatar |-> a]).avatar
    /\ UNCHANGED <<tokens, user_teams, orgs_owned, orgs_memberof, user_perms,
                   team_perms, row_order, sessions>>

\* the response leaves; the handler is free for the next request
Respond ==
    /\ req # Idle
    /\ req' = Idle
    /\ resp' = NoResp
    /\ UNCHANGED <<db, row_order>>

\* the storage layer: a session expires
ExpireSession ==
    /\ req = Idle
    /\ \E sid \in DOMAIN sessions :
          /\ ~sessions[sid].expired
          /\ sessions' = [sessions EXCEPT ![sid].expired = TRUE]
    /\ UNCHANGED <<tokens, user_teams, orgs_owned, orgs_memberof, user_perms,
                   team_perms, row_order, avatar, req, resp>>

\* the storage layer: the next query returns its rows in another order
Reorder ==
    /\ req = Idle
    /\ \E o \in Orders : o # row_order /\ row_order' = o
    /\ UNCHANGED <<db, req, resp>>

(* --------------------------- specifications -------------------------- *)
NextToken == token_verify_step \/ token_get_scope_step \/ Respond
SpecToken == InitToken /\ [][NextToken]_vars

NextUserinfo ==
    \/ resource_id_step
    \/ resource_organizations_step
    \/ resource_teams_step
    \/ Respond
SpecUserinfo == InitUserinfo /\ [][NextUserinfo]_vars

NextPerms == resource_id_step \/ Reorder \/ Respond
SpecPerms == InitPerms /\ [][NextPerms]_vars

NextSession == session_verify_step \/ ExpireSession \/ Respond
SpecSession == InitSession /\ [][NextSession]_vars

NextId == resource_id_step \/ Respond
SpecId == InitId /\ [][NextId]_vars

NextAvatar == resource_avatar_edit_step \/ resource_id_step \/ Respond
SpecAvatar == InitAvatar /\ [][NextAvatar]_vars

\* every handler over one store
Init == PinTokens /\ PinTeams /\ PinPerms /\ PinAvatar /\ PinSessions /\ InitIdle

Next ==
    \/ token_verify_step
    \/ token_get_scope_step
    \/ resource_id_step
    \/ resource_organizations_step
    \/ resource_teams_step
    \/ session_verify_step
    \/ resource_avatar_edit_step
    \/ Respond
    \/ ExpireSession
    \/ Reorder

Spec == Init /\ [][Next]_vars

(* ============================== claims =============================== *)
\* the namespace of the calling client of the request, '' when it has none
ReqNamespace ==
    IF "namespace" \in DOMAIN AuthClient(req.auth_client)
    THEN AuthClient(req.auth_client).namespace ELSE ""

\* the effective scope of the token the request names, when it resolves
ReqScope == tokens[req.form.access_token].effective_scope

\* the outcome the claim's ordered checks give for the request
C1_Expected ==
    IF "resource" \notin DOMAIN req.form \/ req.form.resource = ""
    THEN "no_resource"
    ELSE IF req.form.resource # "*" THEN "unknown_resource"
    ELSE IF "access_token" \notin DOMAIN req.form \/ req.form.access_token = ""
    THEN "no_token"
    ELSE IF ReqNamespace = "" THEN "client_no_resources"
    ELSE IF req.form.access_token \notin DOMAIN tokens THEN "no_token"
    ELSE IF /\ (ReqNamespace \o ":" \o req.form.resource) \notin Range(ReqScope)
            /\ (ReqNamespace \o ":*") \notin Range(ReqScope)
    THEN "access_denied"
    ELSE "ok"

\* C1: token_verify evaluates its checks in a fixed order (resource missing,
\* resource other than '*', token missing, caller without namespace, token
\* unknown, scope without namespace:resource and namespace:*) and the first
\* failing check alone decides the error; the result is ok exactly when no
\* check fails.  A missing parameter is one that is absent or empty.
C1_VerifyCheckOrder ==
    req.op = "token_verify" =>
        IF C1_Expected = "ok"
        THEN resp.body.status = "ok" /\ "error" \notin DOMAIN resp.body
        ELSE resp.body.status = "error" /\ resp.body.error = C1_Expected

\* a request that passes every check but the last
C1_Witness ==
    /\ req.op = "token_verify"
    /\ req.form = [resource |-> "*", access_token |-> "tok1"]
    /\ ReqNamespace = "crm"
    /\ resp.body.status = "error"
    /\ resp.body.error = "access_denied"

\* e is namespace + ':' + r for some r
C2_IsEntryOf(ns, e) == \E k \in 0..Len(e) : e = ns \o ":" \o StrFrom(e, k)

\* the suffixes of the entries of the namespace, in the order of the scope
C2_Suffixes(ns, sc) ==
    LET sel == SelectSeq(sc, LAMBDA e : C2_IsEntryOf(ns, e))
    IN  [i \in 1..Len(sel) |->
            CHOOSE r \in {StrFrom(sel[i], k) : k \in 0..Len(sel[i])} :
                sel[i] = ns \o ":" \o r]

\* C2: token_get_scope, for a token that resolves and a caller with the
\* non-empty namespace ns, returns under scope exactly the suffixes r such
\* that ns:r is an entry of the token's effective scope, in the order of that
\* scope; entries of other namespaces never contribute; it fails with
\* no_access exactly when that list is empty.
C2_GetScopeSuffixes ==
    (/\ req.op = "token_get_scope"
     /\ ~Falsy(req.form, "access_token")
     /\ req.form.access_token \in DOMAIN tokens
     /\ ReqNamespace # "") =>
        IF C2_Suffixes(ReqNamespace, ReqScope) = <<>>
        THEN resp.body.status = "error" /\ resp.body.error = "no_access"
        ELSE /\ resp.body.status = "ok"
             /\ resp.body.clientinfo.scope = C2_Suffixes(ReqNamespace, ReqScope)

\* the caller's namespace is a prefix of the namespace of another entry of
\* the scope, which is left out of the answer
C2_Witness ==
    /\ req.op = "token_get_scope"
    /\ ReqNamespace = "crm"
    /\ req.form = [access_token |-> "tok1"]
    /\ ReqScope = <<"crmx:files", "crm:deals">>
    /\ resp.body.status = "ok"
    /\ resp.body.clientinfo.scope = <<"deals">>

\* the request of the scenario: caller of namespace crm, resource '*', the
\* token's effective scope exactly {crm:contacts, crm:deals}
C7_Scenario ==
    /\ req.op = "token_verify"
    /\ ReqNamespace = "crm"
    /\ req.form = [resource |-> "*", access_token |-> "tok1"]
    /\ Range(ReqScope) = {"crm:contacts", "crm:deals"}

\* C7 as stated: in the scenario token_verify succeeds
C7_ScenarioSucceeds == C7_Scenario => resp.body.status = "ok"

\* C7 as amended: in the scenario token_verify answers access_denied, an
\* application error under HTTP 200, since the scope holds no 'crm:*'
C7_ScenarioDenied ==
    C7_Scenario =>
        /\ resp.status_code = 200
        /\ resp.body.status = "error"
        /\ resp.body.error = "access_denied"

C7_Witness == C7_Scenario /\ ReqScope = <<"crm:contacts", "crm:deals">>

\* the request is malformed: a parameter the endpoint needs is missing or
\* is not the one resource there is
C8_Malformed ==
    \/ /\ req.op = "token_verify"
       /\ (Falsy(req.form, "resource") \/ req.form.resource # "*")
    \/ Falsy(req.form, "access_token")

\* C8: token_verify and token_get_scope answer 400 exactly for the malformed
\* requests (no_resource, unknown_resource, no_token for a missing token) and
\* 200 for every other outcome, success or error; every error response has
\* status error and an error code.
C8_HttpStatus ==
    req.op \in {"token_verify", "token_get_scope"} =>
        /\ resp.status_code = (IF C8_Malformed THEN 400 ELSE 200)
        /\ resp.body.status \in {"ok", "error"}
        /\ (resp.body.status = "error") <=> ("error" \in DOMAIN resp.body)
        /\ resp.status_code = 400 =>
              /\ resp.body.status = "error"
              /\ resp.body.error \in {"no_resource", "unknown_resource", "no_token"}
        /\ (resp.status_code = 200 /\ resp.body.status = "error") =>
              resp.body.error \in {"client_no_resources", "no_token",
                                   "access_denied", "no_access"}

\* an application error answered with 200: the token does not resolve
C8_Witness ==
    /\ req.op = "token_verify"
    /\ req.form = [resource |-> "*", access_token |-> "bogus"]
    /\ resp.status_code = 200
    /\ resp.body.status = "error"
    /\ resp.body.error = "no_token"

\* the request is answered by get_userinfo
UserinfoReq == req.op \in {"id", "organizations", "teams"}

\* the scope get_userinfo is called with for the request
UserinfoScope ==
    IF req.op = "organizations" THEN {"organizations"}
    ELSE IF req.op = "teams" THEN {"teams"}
    ELSE IF "all" \in DOMAIN req.args /\ req.args.all = "1"
         THEN Range(tokens[req.token].effective_scope)
         ELSE {"id"}

\* the user of the request's token
UserinfoUser == tokens[req.token].user

\* the teams of the organizations the user owns
OwnedOrgTeams ==
    UNION {Range(Organization(o).teams) : o \in Range(orgs_owned[UserinfoUser])}

\* C3 as stated: with scope {id} the document has none of the keys email,
\* phone, organizations, teams; with scope {*} it has all four.
C3_IdNoneStarAll ==
    UserinfoReq =>
        /\ UserinfoScope = {"id"} =>
              DOMAIN resp.result \cap {"email", "phone", "organizations", "teams"} = {}
        /\ UserinfoScope = {"*"} =>
              {"email", "phone", "organizations", "teams"} \subseteq DOMAIN resp.result

\* C3 as amended: with scope {id} the document has none of the keys email,
\* phone, organizations, teams; with scope {*} it has email, phone and
\* organizations, and it has teams exactly when the user is a member of a
\* team or owns an organization that has one.
C3_IdNoneStarAllButEmptyTeams ==
    UserinfoReq =>
        /\ UserinfoScope = {"id"} =>
              DOMAIN resp.result \cap {"email", "phone", "organizations", "teams"} = {}
        /\ UserinfoScope = {"*"} =>
              /\ {"email", "phone", "organizations"} \subseteq DOMAIN resp.result
              /\ ("teams" \in DOMAIN resp.result) <=>
                    (Range(user_teams[UserinfoUser]) \cup OwnedOrgTeams # {})

\* scope {*} for a user without teams and without organizations
C3_Witness ==
    /\ UserinfoReq
    /\ UserinfoScope = {"*"}
    /\ user_teams[UserinfoUser] = <<>>
    /\ orgs_owned[UserinfoUser] = <<>>
    /\ {"userid", "email", "phone", "organizations"} \subseteq DOMAIN resp.result
    /\ "teams" \notin DOMAIN resp.result

\* permissions are asked for: /api/1/id with all=1
PermsReq == req.op = "id" /\ "all" \in DOMAIN req.args /\ req.args.all = "1"

\* the client whose grants are read
PermsClient == tokens[req.token].auth_client

\* the grant rows that apply to the request: the direct grant of a
\* user-owned client, else the grants to the teams of the user
PermsRows ==
    IF "user" \in DOMAIN AuthClient(PermsClient)
    THEN {user_perms[k] : k \in DOMAIN user_perms \cap {<<PermsClient, UserinfoUser>>}}
    ELSE {team_perms[k] : k \in DOMAIN team_perms \cap
                 {<<PermsClient, t>> : t \in Range(user_teams[UserinfoUser])}}

\* C4: with permissions requested get_userinfo never fails, and no grant
\* record and a grant record with an empty permission string give the same
\* document: for user-owned and team-governed clients alike it carries a
\* permissions entry that is the empty set.
C4_NoGrantIsEmptySet ==
    (PermsReq /\ PermsRows \subseteq {""}) =>
        /\ resp.kind = "return"
        /\ "permissions" \in DOMAIN resp.result
        /\ resp.result.permissions = <<>>

\* the permission strings granted by the rows that apply
PermsGranted == UNION {Range(split(r)) : r \in PermsRows}

\* C5: the permissions sequence of any (client, user) pair is sorted and
\* free of duplicates, and holds the same strings in the same order whatever
\* order the teams and the team grants are iterated in, for user-owned
\* clients and for clients resolved through team grants.
C5_SortedDupFree ==
    (PermsReq /\ "permissions" \in DOMAIN resp.result) =>
        /\ \A i \in 1..(Len(resp.result.permissions) - 1) :
              StrLess(resp.result.permissions[i], resp.result.permissions[i + 1])
        /\ Range(resp.result.permissions) = PermsGranted

\* C6: every team id appears at most once in the teams list; for every
\* scope that grants teams, a team the user is a member of that is also a
\* team of an organization the user owns appears exactly once, with member
\* true.
C6_TeamOnceMemberWins ==
    (UserinfoReq /\ "teams" \in DOMAIN resp.result) =>
        /\ \A i, j \in 1..Len(resp.result.teams) :
              resp.result.teams[i].buid = resp.result.teams[j].buid => i = j
        /\ (UserinfoScope \cap {"*", "teams", "teams/*"} # {}) =>
              \A t \in Range(user_teams[UserinfoUser]) \cap OwnedOrgTeams :
                  /\ Cardinality({i \in 1..Len(resp.result.teams) :
                                     resp.result.teams[i].buid = t}) = 1
                  /\ \A i \in 1..Len(resp.result.teams) :
                        resp.result.teams[i].buid = t => resp.result.teams[i].member

\* the user is a member of t1 and owns o1, which holds t1 and t2
C6_Witness ==
    /\ req.op = "teams"
    /\ user_teams[UserinfoUser] = <<"t1">>
    /\ orgs_owned[UserinfoUser] = <<"o1">>
    /\ Len(resp.result.teams) = 2
    /\ resp.result.teams[1].buid = "t1" /\ resp.result.teams[1].member
    /\ resp.result.teams[2].buid = "t2" /\ ~resp.result.teams[2].member

\* the session id of the request authenticates to a session of the token's
\* user
C9_OwnLiveSession ==
    /\ req'.args.sessionid \in DOMAIN sessions
    /\ ~sessions[req'.args.sessionid].expired
    /\ "user" \in DOMAIN tokens[req'.token]
    /\ sessions[req'.args.sessionid].user = tokens[req'.token].user

\* C9: a session/verify call returns active:true exactly when the session id
\* authenticates to an existing session of the token's user; such a call
\* records exactly one access touch on that session, with the token's client
\* as the last one seen; a call that returns active:false records no touch
\* and changes no state.
C9_TouchPerActiveCall ==
    [][(req = Idle /\ req'.op = "session_verify") =>
          /\ resp'.kind = "return"
          /\ resp'.result.active <=> C9_OwnLiveSession
          /\ resp'.result.active =>
                /\ resp'.result.sessionid = req'.args.sessionid
                /\ sessions' =
                      [sessions EXCEPT
                         ![req'.args.sessionid].touches = @ + 1,
                         ![req'.args.sessionid].last_client =
                             tokens[req'.token].auth_client]
          /\ ~resp'.result.active => sessions' = sessions
          /\ UNCHANGED <<tokens, user_teams, orgs_owned, orgs_memberof,
                         user_perms, team_perms, avatar>>]_vars

\* the second of two calls on the same live session: active again, and the
\* session holds two touches
C9_Witness ==
    /\ req.op = "session_verify"
    /\ req.args.sessionid = "s1"
    /\ resp.result.active
    /\ ~sessions["s1"].expired
    /\ sessions["s1"].touches = 2
    /\ sessions["s1"].last_client = tokens[req.token].auth_client

\* the host of a netloc: what follows the last '@', up to the port; the
\* inside of the brackets for an IPv6 literal
C10_Host(netloc) ==
    LET ats == {i \in 0..(Len(netloc) - 1) : CharAt(netloc, i) = "@"}
        hostinfo == IF ats = {} THEN netloc
                    ELSE StrFrom(netloc, 1 + CHOOSE i \in ats : \A j \in ats : j <= i)
        open == FindAny(hostinfo, {"["}, 0)
    IN  IF open < Len(hostinfo)
        THEN Slice(hostinfo, open + 1, FindAny(hostinfo, {"]"}, open + 1))
        ELSE Slice(hostinfo, 0, FindAny(hostinfo, {":"}, 0))

\* the argument parses as a URL of scheme https with a non-empty host
C10_HttpsWithHost(a) ==
    /\ "raises" \notin DOMAIN urlparse(a)
    /\ urlparse(a).scheme = "https"
    /\ C10_Host(urlparse(a).netloc) # ""

\* C10: avatar/edit accepts its argument exactly when it parses as a URL of
\* scheme https with a non-empty host; on acceptance the token user's avatar
\* becomes the argument and the response echoes it; on rejection the request
\* fails as a bad request and the avatar is unchanged.
C10_AcceptsHttpsWithHost ==
    [][(req = Idle /\ req'.op = "avatar_edit") =>
          IF C10_HttpsWithHost(req'.args.avatar)
          THEN /\ resp'.kind = "return"
               /\ resp'.result.avatar = req'.args.avatar
               /\ avatar' = [avatar EXCEPT ![tokens[req'.token].user] =
                                              req'.args.avatar]
          ELSE /\ resp'.kind = "raise"
               /\ resp'.exception = "BadRequest"
               /\ avatar' = avatar]_vars

\* the scope get_userinfo is called with for the request, as the list passed
C11_ReqScope ==
    IF req.op = "organizations" THEN <<"organizations">>
    ELSE IF req.op = "teams" THEN <<"teams">>
    ELSE IF "all" \in DOMAIN req.args /\ req.args.all = "1"
         THEN tokens[req.token].effective_scope
         ELSE <<"id">>

\* the scopes whose tokens are all tokens of sc
C11_SubScopes(sc) ==
    LET RECURSIVE pick(_, _)
        pick(i, I) ==
            IF i > Len(sc) THEN <<>>
            ELSE (IF i \in I THEN <<sc[i]>> ELSE <<>>) \o pick(i + 1, I)
    IN  {pick(1, I) : I \in SUBSET (1..Len(sc))}

\* the document get_userinfo gives the request's user and client for scope S
C11_DocFor(S) ==
    get_userinfo(UserinfoUser, tokens[req.token].auth_client, S, <<>>, PermsReq)

\* C11: a topic is disclosed exactly when the scope contains '*', the topic
\* or the topic followed by '/*' (the id block, the email, phone and
\* organizations keys, and for teams the entries of teams the user only owns
\* through an organization); and for every scope S made of tokens of the
\* request's scope, every key of the document for S is a key of the
\* request's document and every team entry of the document for S is a team
\* entry of the request's document.
C11_ScopeMonotonic ==
    UserinfoReq =>
        /\ ("userid" \in DOMAIN resp.result) <=>
              (UserinfoScope \cap {"*", "id", "id/*"} # {})
        /\ \A T \in {"email", "phone", "organizations"} :
              (T \in DOMAIN resp.result) <=>
                 (UserinfoScope \cap {"*", T, T \o "/*"} # {})
        /\ (/\ "teams" \in DOMAIN resp.result
            /\ \E i \in 1..Len(resp.result.teams) : ~resp.result.teams[i].member)
              <=> (/\ UserinfoScope \cap {"*", "teams", "teams/*"} # {}
                   /\ OwnedOrgTeams \ Range(user_teams[UserinfoUser]) # {})
        /\ \A S \in C11_SubScopes(C11_ReqScope) :
              /\ DOMAIN C11_DocFor(S) \subseteq DOMAIN resp.result
              /\ "teams" \in DOMAIN C11_DocFor(S) =>
                    Range(C11_DocFor(S).teams) \subseteq Range(resp.result.teams)

\* the token's scope adds teams to organizations: the member team disclosed
\* under organizations alone stays, and the teams of the owned organization
\* join it
C11_Witness ==
    /\ PermsReq
    /\ C11_ReqScope = <<"organizations", "teams">>
    /\ user_teams[UserinfoUser] = <<"t3">>
    /\ orgs_owned[UserinfoUser] = <<"o1">>
    /\ Len(C11_DocFor(<<"organizations">>).teams) = 1
    /\ Len(resp.result.teams) = 3
    /\ resp.result.teams[1] = C11_DocFor(<<"organizations">>).teams[1]

\* the keys of the id block
C12_IdKeys ==
    {"userid", "buid", "uuid", "username", "fullname", "timezone", "avatar",
     "oldids", "olduuids"}

\* the keys of the document for the token's scope with permissions asked for
C12_FullKeys ==
    (IF UserinfoScope \cap {"*", "id", "id/*"} # {} THEN C12_IdKeys ELSE {})
    \cup {T \in {"email", "phone", "organizations"} :
             UserinfoScope \cap {"*", T, T \o "/*"} # {}}
    \cup (IF \/ /\ UserinfoScope \cap {"*", "organizations", "organizations/*",
                                        "teams", "teams/*"} # {}
                 /\ user_teams[UserinfoUser] # <<>>
              \/ /\ UserinfoScope \cap {"*", "teams", "teams/*"} # {}
                 /\ OwnedOrgTeams # {}
           THEN {"teams"} ELSE {})
    \cup (IF \/ "user" \notin DOMAIN AuthClient(PermsClient)
              \/ <<PermsClient, UserinfoUser>> \in DOMAIN user_perms
           THEN {"permissions"} ELSE {})

C13_OwnedTeamsNeedTeamsTopic ==
    UserinfoReq =>
        /\ (UserinfoScope \cap {"*", "teams", "teams/*"} = {}) =>
              /\ ("teams" \in DOMAIN resp.result) <=>
                    (/\ UserinfoScope \cap {"organizations", "organizations/*"} # {}
                     /\ user_teams[UserinfoUser] # <<>>)
              /\ "teams" \in DOMAIN resp.result =>
                    \A i \in 1..Len(resp.result.teams) :
                        /\ resp.result.teams[i].member
                        /\ resp.result.teams[i].buid \in Range(user_teams[UserinfoUser])
        /\ "teams" \in DOMAIN resp.result => Len(resp.result.teams) > 0

\* /api/1/organizations for a member of t3 who owns o1: of t1, t2 and t3
\* only t3 is listed
C13_Witness ==
    /\ req.op = "organizations"
    /\ user_teams[UserinfoUser] = <<"t3">>
    /\ orgs_owned[UserinfoUser] = <<"o1">>
    /\ Len(resp.result.teams) = 1
    /\ resp.result.teams[1].buid = "t3"
    /\ resp.result.teams[1].member

\* what token_get_scope answers the calling client of request r for the
\* token that r names
C14_GetScope(r) ==
    token_get_scope(r.auth_client, [access_token |-> r.form.access_token])

\* C14: when token_verify answers ok for resource '*', token_get_scope for
\* the same calling client and token answers ok with '*' in its scope list;
\* both give validity 120, the same userinfo (there exactly when the token
\* has a user) and the same clientinfo but for the scope list; and neither
\* call changes a token, grant, user or session row.
C14_VerifyAgreesWithGetScope ==
    [][/\ req'.op \in {"token_verify", "token_get_scope"} =>
            UNCHANGED <<tokens, user_teams, orgs_owned, orgs_memberof,
                        user_perms, team_perms, avatar, sessions>>
       /\ (req'.op = "token_verify" /\ resp'.body.status = "ok") =>
            /\ req'.form.resource = "*"
            /\ C14_GetScope(req').status_code = 200
            /\ C14_GetScope(req').body.status = "ok"
            /\ In("*", C14_GetScope(req').body.clientinfo.scope)
            /\ resp'.body.validity = 120
            /\ C14_GetScope(req').body.validity = 120
            /\ ("userinfo" \in DOMAIN resp'.body) <=>
                  ("user" \in DOMAIN tokens[req'.form.access_token])
            /\ ("userinfo" \in DOMAIN C14_GetScope(req').body) <=>
                  ("user" \in DOMAIN tokens[req'.form.access_token])
            /\ "userinfo" \in DOMAIN resp'.body =>
                  C14_GetScope(req').body.userinfo = resp'.body.userinfo
            /\ resp'.body.clientinfo =
                  [k \in DOMAIN C14_GetScope(req').body.clientinfo \ {"scope"} |->
                      C14_GetScope(req').body.clientinfo[k]]
      ]_vars

\* the client of namespace crm verifies a token of another client whose
\* scope is 'crm:contacts', 'crm:*' and that has a user; get_scope lists
\* 'contacts' and '*'
C14_Witness ==
    /\ req.op = "token_verify"
    /\ req.auth_client = "c1"
    /\ resp.body.status = "ok"
    /\ "userinfo" \in DOMAIN resp.body
    /\ tokens[req.form.access_token].auth_client # req.auth_client
    /\ C14_GetScope(req).body.clientinfo.scope = <<"contacts", "*">>

====
